---- MODULE Spec2Model ----
(***************************************************************************)
(* AutoMirror (src/src/automirror/main.py): the mapping driver `main`, the *)
(* namespace check `check_target`, the two paged listing readers, the      *)
(* organization reconciliation `update_org` with its asyncio.TaskGroup     *)
(* fan-out of repo_migrate / repo_delete tasks, and the single-repository  *)
(* path `update_repo`.                                                     *)
(*                                                                         *)
(* One coroutine (the driver) runs main/update_org/update_repo; its        *)
(* position is pc.  Every remote call is a suspension point: the call is   *)
(* issued by the step that reaches it and answered by a later step whose   *)
(* status is chosen by the host.  Tasks created in the TaskGroup start in  *)
(* creation order once the driver is suspended, and no response is         *)
(* delivered while a created task is still waiting for its first step     *)
(* (the event loop runs its ready queue before it polls for I/O).          *)
(*                                                                         *)
(* Spec is that state machine.  SpecTwice applies update_org's diff as a   *)
(* function, twice, to hosts nobody else changes.  SpecLive is Spec        *)
(* without raising calls, with hosts that may loop, under weak fairness.   *)
(***************************************************************************)
EXTENDS Integers, Sequences, FiniteSets, TLC

\* ---------------------------------------------------------------- bounds
\* Repository names: the origin lists a and b, the target b and c.
OriginNames == {"a", "b"}
TargetNames == {"b", "c"}
MaxRepos == 2
PerPage == 1
MaxMirrors == 2
ConcurrencyLimit == 1
\* The call counters stop counting at MaxCalls.
MaxCalls == 4

VARIABLES
    pc,                 \* position of the driver coroutine
    nMirrors,           \* len(data['mirrors'])
    semaphore,          \* Session.semaphore: the permits it holds
    auth,               \* status of the pre-flight GET /user (0: not asked)
    hostLoops,          \* the hosts serve an empty listing as pages in a cycle
    idx,                \* number of mirrors the for loop of main has taken
    mirror,             \* the mirror being processed
    targetHost,         \* repositories of the target namespace on the host
    originHost,         \* repositories of the origin namespace on the host
    url,                \* the reader's url (a page number; 0 is None)
    repos,              \* get_target_org_repos: the list being built
    target_repos,       \* update_org / update_repo: what check_target returned
    target_repo_names,  \* update_org: the working list of target names
    targetState,        \* outcome of check_target for this mapping
    tasks,              \* the tasks created in the TaskGroup, in creation order
    get_origin_org_repos_exception,
    originState,        \* state of the origin enumeration of this mapping
    yielded,            \* items the origin generator has yielded
    calls,              \* remote calls this mapping has issued, by kind
    log                 \* what this mapping has logged

vars == <<pc, nMirrors, semaphore, auth, hostLoops, idx, mirror, targetHost, originHost, url,
          repos, target_repos, target_repo_names, targetState, tasks,
          get_origin_org_repos_exception, originState, yielded, calls, log>>

\* ------------------------------------------------------------- the hosts
Min(a, b) == IF a < b THEN a ELSE b

SeqsUpTo(S, n) == UNION {[1..k -> S] : k \in 0..n}

\* A listing of an organization: at most MaxRepos repositories (by name),
\* where a name may be listed more than once.
Listings(S) == SeqsUpTo(S, MaxRepos)

\* The host serves a listing in pages of PerPage items; an empty listing is
\* one empty page.
NumPages(listing) ==
    IF Len(listing) = 0 THEN 1 ELSE (Len(listing) + PerPage - 1) \div PerPage

\* resp.json() of page p
PageItems(listing, p) ==
    SubSeq(listing, (p - 1) * PerPage + 1, Min(p * PerPage, Len(listing)))

\* 'next' in resp.links.  A host that loops serves every page of an empty
\* listing with a 'next' link.
HasNext(listing, p) ==
    p < NumPages(listing) \/ (hostLoops /\ listing = <<>>)

\* resp.links['next'].get('url'): the page after p; from a host that loops,
\* the first and the second page of an empty listing link to each other.
NextLink(listing, p) ==
    IF p < NumPages(listing) THEN p + 1
    ELSE IF p = 1 THEN 2 ELSE 1

\* Statuses the hosts answer with.  A lookup, creation or listing call that
\* raises instead is handled by the same except clause as its failing
\* status, so the failing status stands for both.
LookupStatuses == {200, 404, 500}
OrgCreateStatuses == {201, 500}
PageStatuses == {200, 500}
MigrateStatuses == {201, 422}
DeleteStatuses == {204, 500}
AuthStatuses == {200, 401}

\* The mirrors a configuration may list.
GoodUrl == [scheme |-> "https", netloc |-> "github.com"]
NotAUrl == [scheme |-> "", netloc |-> ""]
NoHostUrl == [scheme |-> "https", netloc |-> ""]
MirrorSamples ==
    {[type |-> "org", origin |-> "o", url |-> NotAUrl]}
    \cup {[type |-> "repo", origin |-> "b", url |-> GoodUrl],
          [type |-> "repo", origin |-> "b", url |-> NotAUrl],
          [type |-> "repo", origin |-> "b", url |-> NoHostUrl],
          [type |-> "svn", origin |-> "o", url |-> NotAUrl],
          [type |-> "org", origin |-> "", url |-> NotAUrl]}

NoMirror == [type |-> "", origin |-> "", url |-> NotAUrl]

\* ------------------------------------------------------------ the readers
\* The page loop that never follows a 'next' link.
NextUrlNone(listing, p) == 0

\* url = resp.links['next'].get('url') if 'next' in resp.links else None
NextUrl(listing, p) == IF HasNext(listing, p) THEN NextLink(listing, p) ELSE 0

\* list.pop(0) in place of list.remove(x).
RemoveHead(s, x) == Tail(s)

\* list.remove(x): the first occurrence
RECURSIVE RemoveFirst(_, _)
RemoveFirst(s, x) ==
    IF s = <<>> THEN <<>>
    ELSE IF Head(s) = x THEN Tail(s)
    ELSE <<Head(s)>> \o RemoveFirst(Tail(s), x)

\* The membership test that looks at the first item only.
InSeqHead(x, s) == s # <<>> /\ s[1] = x

InSeq(x, s) == \E i \in DOMAIN s : s[i] = x

NewTask(kind, name, m) ==
    [kind |-> kind, name |-> name, m |-> m, st |-> "created", status |-> 0]

LogEntry(tag, name) == [tag |-> tag, name |-> name]

\* The async for body without target_repo_names.remove(...).
RECURSIVE ClassifyKeep(_, _, _, _, _)
ClassifyKeep(items, names, ts, lg, m) ==
    IF items = <<>> THEN [names |-> names, tasks |-> ts, log |-> lg]
    ELSE IF InSeq(Head(items), names)
         THEN ClassifyKeep(Tail(items), names, ts,
                           lg \cup {LogEntry("Existed", Head(items))}, m)
         ELSE ClassifyKeep(Tail(items), names,
                           Append(ts, NewTask("migrate", Head(items), m)),
                           lg, m)

\* The async for body without the membership test: every item gets a task.
RECURSIVE ClassifyAll(_, _, _, _, _)
ClassifyAll(items, names, ts, lg, m) ==
    IF items = <<>> THEN [names |-> names, tasks |-> ts, log |-> lg]
    ELSE ClassifyAll(Tail(items), RemoveFirst(names, Head(items)),
                     Append(ts, NewTask("migrate", Head(items), m)), lg, m)

\* The body of the async for of update_org for the items of one page:
\* a name found in target_repo_names is removed and logged Existed, any
\* other gets a repo_migrate task.
RECURSIVE Classify(_, _, _, _, _)
Classify(items, names, ts, lg, m) ==
    IF items = <<>> THEN [names |-> names, tasks |-> ts, log |-> lg]
    ELSE IF InSeq(Head(items), names)
         THEN Classify(Tail(items), RemoveFirst(names, Head(items)), ts,
                       lg \cup {LogEntry("Existed", Head(items))}, m)
         ELSE Classify(Tail(items), names,
                       Append(ts, NewTask("migrate", Head(items), m)), lg, m)

\* The delete loop over target_repos in place of target_repo_names.
DeleteTasksListed(names, m) ==
    [i \in DOMAIN target_repos |-> NewTask("delete", target_repos[i], m)]

\* for repo_name in target_repo_names: tg.create_task(repo_delete(...))
RECURSIVE DeleteTasks(_, _)
DeleteTasks(names, m) ==
    IF names = <<>> THEN <<>>
    ELSE <<NewTask("delete", Head(names), m)>> \o DeleteTasks(Tail(names), m)

\* The delete loop placed inside the async for.
PageTasksEager(ts, names, nxt, m) == ts \o DeleteTasks(names, m)

\* The tasks after one origin page: the delete loop runs once the async for
\* is over (nxt = 0), not before.
PageTasks(ts, names, nxt, m) ==
    IF nxt # 0 THEN ts ELSE ts \o DeleteTasks(names, m)

\* ------------------------------------------------------------- the tasks
\* A task that returned is not counted as done.
FinishedUnlessDone(t) == t.st \in {"raised", "cancelled", "unstarted"}

Finished(t) == t.st \in {"done", "raised", "cancelled", "unstarted"}

Created(ts) == {i \in DOMAIN ts : ts[i].st = "created"}

InFlight(ts) == {i \in DOMAIN ts : ts[i].st = "inflight"}

\* __aexit__ that does not wait for the tasks.
TaskGroupNoWait(ts) == TRUE

\* TaskGroup.__aexit__ returns once every task of the group is done.
TaskGroupDrained(ts) == \A i \in DOMAIN ts : Finished(ts[i])

\* A task that raised: the TaskGroup cancels every task that is not done.
AbortTasks(ts, t) ==
    [i \in DOMAIN ts |->
        IF i = t THEN [ts[i] EXCEPT !.st = "raised"]
        ELSE IF ts[i].st = "inflight" THEN [ts[i] EXCEPT !.st = "cancelled"]
        ELSE IF ts[i].st = "created" THEN [ts[i] EXCEPT !.st = "unstarted"]
        ELSE ts[i]]

\* A status that is not the success status cancels the other tasks.
TaskDoneCancelling(ts, i, status) ==
    [j \in DOMAIN ts |->
        IF j = i THEN [ts[j] EXCEPT !.st = "done", !.status = status]
        ELSE IF status \notin {201, 204} /\ ts[j].st = "inflight"
        THEN [ts[j] EXCEPT !.st = "cancelled"]
        ELSE ts[j]]

\* repo_migrate / repo_delete after the await: the status is logged and the
\* task ends; nothing is raised.
TaskDone(ts, i, status) ==
    [ts EXCEPT ![i].st = "done", ![i].status = status]

\* What repo_migrate / repo_delete log for a status.
Outcome(kind, status) ==
    IF kind = "migrate"
    THEN (IF status # 201 THEN "CreateFailed" ELSE "Created")
    ELSE (IF status # 204 THEN "DeleteFailed" ELSE "Deleted")

\* The url check that looks at the scheme only.
check_url_scheme(u) == u.scheme # ""

\* urlparse(origin_url): bool(parsed.scheme and parsed.netloc)
check_url(u) == u.scheme # "" /\ u.netloc # ""

\* Remote calls issued, by kind.
CallKinds == {"lookup", "org_create", "target_page", "origin_page",
              "migrate", "delete"}

NoCalls == [k \in CallKinds |-> 0]

Issue(c, kind) == [c EXCEPT ![kind] = Min(@ + 1, MaxCalls)]

\* ------------------------------------------------------------------ Init
Init ==
    /\ pc = "auth"
    /\ nMirrors \in 1..MaxMirrors
    /\ semaphore = ConcurrencyLimit
    /\ auth = 0
    /\ hostLoops = FALSE
    /\ idx = 0
    /\ mirror = NoMirror
    /\ targetHost = <<>>
    /\ originHost = <<>>
    /\ url = 0
    /\ repos = <<>>
    /\ target_repos = <<>>
    /\ target_repo_names = <<>>
    /\ targetState = "none"
    /\ tasks = <<>>
    /\ get_origin_org_repos_exception = FALSE
    /\ originState = "none"
    /\ yielded = <<>>
    /\ calls = NoCalls
    /\ log = {}

hostVars == <<targetHost, originHost>>
configVars == <<nMirrors, semaphore, auth, hostLoops>>
readerVars == <<url, repos, target_repos, target_repo_names, targetState,
                get_origin_org_repos_exception, originState, yielded>>

\* ------------------------------------------------------------------ main
\* The pre-flight call without its assert: main goes on whatever the status.
AuthCheckNoAssert ==
    /\ pc = "auth"
    /\ \E status \in AuthStatuses :
          /\ auth' = status
          /\ pc' = "loop"
    /\ UNCHANGED <<nMirrors, semaphore, hostLoops, idx, mirror, hostVars,
                   readerVars, tasks, calls, log>>

\* resp = await target_client.get(f"{target_base_url}/user"); assert 200
AuthCheck ==
    /\ pc = "auth"
    /\ \E status \in AuthStatuses :
          /\ auth' = status
          /\ pc' = IF status = 200 THEN "loop" ELSE "aborted"
    /\ UNCHANGED <<nMirrors, semaphore, hostLoops, idx, mirror, hostVars,
                   readerVars, tasks, calls, log>>

\* The state a mapping starts from; tasks of an earlier mapping that are
\* not finished stay where they are.
StartMapping(mr) ==
    /\ idx' = idx + 1
    /\ mirror' = mr
    /\ targetHost' = <<>>
    /\ originHost' = <<>>
    /\ url' = 0
    /\ repos' = <<>>
    /\ target_repos' = <<>>
    /\ target_repo_names' = <<>>
    /\ targetState' = "none"
    /\ tasks' = SelectSeq(tasks, LAMBDA t : ~Finished(t))
    /\ get_origin_org_repos_exception' = FALSE
    /\ originState' = "none"
    /\ yielded' = <<>>
    /\ UNCHANGED configVars

\* for mirror in data['mirrors']: exhausted
MainDone ==
    /\ pc = "loop"
    /\ idx = nMirrors
    /\ pc' = "finished"
    /\ UNCHANGED <<configVars, idx, mirror, hostVars, readerVars, tasks, calls, log>>

\* if not mirror.get('origin'): return
MirrorNoOrigin ==
    /\ pc = "loop"
    /\ idx < nMirrors
    /\ \E mr \in MirrorSamples :
          /\ mr.origin = ""
          /\ StartMapping(mr)
    /\ calls' = NoCalls
    /\ log' = {}
    /\ pc' = "returned"

\* if mirror.get('type') not in ['repo', 'org']: logging.error; return
MirrorBadType ==
    /\ pc = "loop"
    /\ idx < nMirrors
    /\ \E mr \in MirrorSamples :
          /\ mr.origin # ""
          /\ mr.type \notin {"repo", "org"}
          /\ StartMapping(mr)
    /\ calls' = NoCalls
    /\ log' = {LogEntry("report", "failed")}
    /\ pc' = "returned"

\* update_repo, to its first await: the url check, then check_target's lookup
StartRepo ==
    /\ pc = "loop"
    /\ idx < nMirrors
    /\ \E mr \in MirrorSamples :
          /\ mr.origin # ""
          /\ mr.type = "repo"
          /\ StartMapping(mr)
          /\ IF ~check_url(mr.url)
             THEN /\ log' = {LogEntry("report", "failed")}
                  /\ calls' = NoCalls
                  /\ pc' = "loop"
             ELSE /\ log' = {}
                  /\ calls' = Issue(NoCalls, "lookup")
                  /\ pc' = "lookup"

\* update_org, to its first await: check_target's lookup
StartOrg ==
    /\ pc = "loop"
    /\ idx < nMirrors
    /\ \E mr \in MirrorSamples :
          /\ mr.origin # ""
          /\ mr.type = "org"
          /\ StartMapping(mr)
    /\ calls' = Issue(NoCalls, "lookup")
    /\ log' = {}
    /\ pc' = "lookup"

\* ---------------------------------------------------------- check_target
\* The coroutine is suspended in a remote call.
Suspended ==
    pc \in {"lookup", "org_create", "target_page", "origin_page", "tg_wait",
            "repo_migrate"}

\* A response is delivered only once the ready queue is empty.
Polling == Suspended /\ Created(tasks) = {}

\* The failure of check_target left uncaught: it leaves update_org and main.
CheckTargetFailsUncaught ==
    /\ targetState' = "failed"
    /\ log' = log \cup {LogEntry("report", "failed")}
    /\ pc' = "aborted"
    /\ UNCHANGED <<url, repos, target_repos, target_repo_names, calls,
                   originHost, get_origin_org_repos_exception, originState,
                   yielded>>

\* The except clause without its return: the failure is logged and the
\* mapping goes on with the empty listing.
CheckTargetFailsProceeds ==
    /\ targetState' = "failed"
    /\ log' = log \cup {LogEntry("report", "failed")}
    /\ UNCHANGED <<repos, target_repos, target_repo_names,
                   get_origin_org_repos_exception, yielded>>
    /\ IF mirror.type = "org"
       THEN /\ originHost' \in Listings(OriginNames)
            /\ url' = 1
            /\ originState' = "reading"
            /\ calls' = Issue(calls, "origin_page")
            /\ pc' = "origin_page"
       ELSE /\ UNCHANGED <<originHost, originState, url>>
            /\ calls' = Issue(calls, "migrate")
            /\ pc' = "repo_migrate"

\* except Exception as e: logging.error('...检查target时发生错误'); return
CheckTargetFails ==
    /\ targetState' = "failed"
    /\ log' = log \cup {LogEntry("report", "failed")}
    /\ pc' = "loop"
    /\ UNCHANGED <<url, repos, target_repos, target_repo_names, calls,
                   originHost, get_origin_org_repos_exception, originState,
                   yielded>>

\* check_target has returned `listing`: update_org enters the TaskGroup and
\* asks for the first origin page; update_repo looks for its repository.
CheckTargetReturns(listing) ==
    /\ target_repos' = listing
    /\ target_repo_names' = listing
    /\ repos' = <<>>
    /\ UNCHANGED <<get_origin_org_repos_exception, yielded>>
    /\ IF mirror.type = "org"
       THEN /\ originHost' \in Listings(OriginNames)
            /\ url' = 1
            /\ originState' = "reading"
            /\ calls' = Issue(calls, "origin_page")
            /\ log' = log
            /\ pc' = "origin_page"
       ELSE /\ UNCHANGED <<originHost, originState>>
            /\ url' = 0
            /\ IF InSeq(mirror.origin, listing)
               THEN /\ log' = log \cup {LogEntry("Existed", mirror.origin)}
                    /\ calls' = calls
                    /\ pc' = "loop"
               ELSE /\ log' = log
                    /\ calls' = Issue(calls, "migrate")
                    /\ pc' = "repo_migrate"

\* resp = await target_client.get(f'{target_base_url}/orgs/{target}')
LookupReturn ==
    /\ pc = "lookup"
    /\ Polling
    /\ \E status \in LookupStatuses :
          IF status \notin {200, 404}
          THEN CheckTargetFails /\ targetHost' = targetHost
          ELSE IF status = 404
          THEN /\ pc' = "org_create"
               /\ calls' = Issue(calls, "org_create")
               /\ UNCHANGED <<hostVars, url, repos, target_repos,
                              target_repo_names, targetState, log,
                              get_origin_org_repos_exception, originState,
                              yielded>>
          ELSE /\ targetHost' \in Listings(TargetNames)
               /\ pc' = "target_page"
               /\ url' = 1
               /\ repos' = <<>>
               /\ calls' = Issue(calls, "target_page")
               /\ UNCHANGED <<originHost, target_repos, target_repo_names,
                              targetState, log,
                              get_origin_org_repos_exception, originState,
                              yielded>>
    /\ UNCHANGED <<configVars, idx, mirror, tasks>>

\* check_target without its else: the listing is fetched for a namespace
\* that was just created too.
OrgCreateReturnThenList ==
    /\ pc = "org_create"
    /\ Polling
    /\ \E status \in OrgCreateStatuses :
          IF status # 201
          THEN CheckTargetFails /\ targetHost' = targetHost
          ELSE /\ targetState' = "created"
               /\ targetHost' = <<>>
               /\ pc' = "target_page"
               /\ url' = 1
               /\ repos' = <<>>
               /\ calls' = Issue(calls, "target_page")
               /\ UNCHANGED <<originHost, target_repos, target_repo_names,
                              log, get_origin_org_repos_exception,
                              originState, yielded>>
    /\ UNCHANGED <<configVars, idx, mirror, tasks>>

\* resp = await target_client.post(f'{target_base_url}/orgs/', ...)
OrgCreateReturn ==
    /\ pc = "org_create"
    /\ Polling
    /\ \E status \in OrgCreateStatuses :
          IF status # 201
          THEN CheckTargetFails
          ELSE /\ targetState' = "created"
               /\ CheckTargetReturns(<<>>)
    /\ UNCHANGED <<configVars, idx, mirror, targetHost, tasks>>

\* get_target_org_repos: one page of the target listing
TargetPageReturn ==
    /\ pc = "target_page"
    /\ Polling
    /\ \E status \in PageStatuses :
          IF status # 200
          THEN CheckTargetFails
          ELSE LET got == repos \o PageItems(targetHost, url)
                   nxt == NextUrl(targetHost, url)
               IN  IF nxt # 0
                   THEN /\ repos' = got
                        /\ url' = nxt
                        /\ calls' = Issue(calls, "target_page")
                        /\ pc' = "target_page"
                        /\ UNCHANGED <<originHost, target_repos,
                                       target_repo_names, targetState, log,
                                       get_origin_org_repos_exception,
                                       originState, yielded>>
                   ELSE /\ targetState' = "listed"
                        /\ CheckTargetReturns(got)
    /\ UNCHANGED <<configVars, idx, mirror, targetHost, tasks>>

\* ------------------------------------------------------------- update_org
\* get_origin_org_repos_iter: one page of the origin listing, and the body
\* of the async for for each of its items; when the listing ends or fails,
\* the delete tasks, and the coroutine waits in TaskGroup.__aexit__.
OriginPageReturn ==
    /\ pc = "origin_page"
    /\ Polling
    /\ \E status \in PageStatuses :
          IF status # 200
          THEN /\ get_origin_org_repos_exception' = TRUE
               /\ originState' = "failed"
               /\ tasks' = tasks \o DeleteTasks(target_repo_names, idx)
               /\ pc' = "tg_wait"
               /\ UNCHANGED <<url, target_repo_names, yielded, calls, log>>
          ELSE LET items == PageItems(originHost, url)
                   r == Classify(items, target_repo_names, tasks, log, idx)
                   nxt == NextUrl(originHost, url)
               IN  /\ yielded' = yielded \o items
                   /\ target_repo_names' = r.names
                   /\ log' = r.log
                   /\ get_origin_org_repos_exception' = FALSE
                   /\ tasks' = PageTasks(r.tasks, r.names, nxt, idx)
                   /\ IF nxt # 0
                      THEN /\ url' = nxt
                           /\ calls' = Issue(calls, "origin_page")
                           /\ pc' = "origin_page"
                           /\ UNCHANGED originState
                      ELSE /\ url' = 0
                           /\ calls' = calls
                           /\ originState' = "complete"
                           /\ pc' = "tg_wait"
    /\ UNCHANGED <<configVars, idx, mirror, hostVars, repos, target_repos,
                   targetState>>

\* The first step of the oldest created task: it issues its remote call.
TaskStart ==
    /\ Suspended
    /\ Created(tasks) # {}
    /\ LET i == CHOOSE j \in Created(tasks) : \A k \in Created(tasks) : j <= k
       IN  /\ tasks' = [tasks EXCEPT ![i].st = "inflight"]
           /\ calls' = Issue(calls, tasks[i].kind)
    /\ UNCHANGED <<pc, configVars, idx, mirror, hostVars, readerVars, log>>

\* repo_migrate / repo_delete: the call returns a status, which is logged.
TaskReturn ==
    /\ Polling
    /\ \E i \in InFlight(tasks) :
       \E status \in (IF tasks[i].kind = "migrate" THEN MigrateStatuses
                      ELSE DeleteStatuses) :
          tasks' = TaskDone(tasks, i, status)
    /\ UNCHANGED <<pc, configVars, idx, mirror, hostVars, readerVars, calls,
                   log>>

\* repo_migrate / repo_delete: the call raises (a transport error).  The
\* TaskGroup aborts: it cancels its other tasks and, when the coroutine is
\* still in the body (waiting for an origin page), the coroutine too, which
\* leaves the async for by CancelledError and goes to __aexit__.
TaskRaise ==
    /\ Polling
    /\ \E i \in InFlight(tasks) : tasks' = AbortTasks(tasks, i)
    /\ IF pc = "origin_page"
       THEN /\ pc' = "tg_wait"
            /\ originState' = "cancelled"
       ELSE UNCHANGED <<pc, originState>>
    /\ UNCHANGED <<configVars, idx, mirror, hostVars, url, repos,
                   target_repos, target_repo_names, targetState,
                   get_origin_org_repos_exception, yielded, calls, log>>

\* The report without the check of get_origin_org_repos_exception.
ReportSuccess(exc) == "success"

\* if get_origin_org_repos_exception: '同步不完全' else: '同步成功'
Report(exc) == IF exc THEN "incomplete" ELSE "success"

\* TaskGroup.__aexit__: every task is done.  With a task that raised, an
\* ExceptionGroup leaves update_org and main; otherwise the final report.
TaskGroupExit ==
    /\ pc = "tg_wait"
    /\ TaskGroupDrained(tasks)
    /\ IF \E i \in DOMAIN tasks : tasks[i].st = "raised"
       THEN /\ pc' = "crashed"
            /\ log' = log
       ELSE /\ pc' = "loop"
            /\ log' = log \cup
                  {LogEntry("report", Report(get_origin_org_repos_exception))}
    /\ UNCHANGED <<configVars, idx, mirror, hostVars, readerVars, tasks,
                   calls>>

\* ------------------------------------------------------------ update_repo
\* await repo_migrate(origin_url, origin, target): the call returns
RepoMigrateReturn ==
    /\ pc = "repo_migrate"
    /\ Polling
    /\ \E status \in MigrateStatuses :
          log' = log \cup {LogEntry(Outcome("migrate", status), mirror.origin)}
    /\ pc' = "loop"
    /\ UNCHANGED <<configVars, idx, mirror, hostVars, readerVars, tasks,
                   calls>>

\* await repo_migrate(origin_url, origin, target): the call raises
RepoMigrateRaise ==
    /\ pc = "repo_migrate"
    /\ Polling
    /\ pc' = "crashed"
    /\ UNCHANGED <<configVars, idx, mirror, hostVars, readerVars, tasks,
                   calls, log>>

\* ------------------------------------------------------------------ Spec
Next ==
    \/ AuthCheck
    \/ MainDone
    \/ MirrorNoOrigin
    \/ MirrorBadType
    \/ StartRepo
    \/ StartOrg
    \/ LookupReturn
    \/ OrgCreateReturn
    \/ TargetPageReturn
    \/ OriginPageReturn
    \/ TaskStart
    \/ TaskReturn
    \/ TaskRaise
    \/ TaskGroupExit
    \/ RepoMigrateReturn
    \/ RepoMigrateRaise

Spec == Init /\ [][Next]_vars

\* ------------------------------------------- update_org run twice in a row
\* What a reader returns for a listing when every page answers 200.
RECURSIVE ReadFrom(_, _)
ReadFrom(listing, p) ==
    PageItems(listing, p) \o
        (IF NextUrl(listing, p) = 0 THEN <<>>
         ELSE ReadFrom(listing, NextUrl(listing, p)))

\* The tasks update_org creates for an origin and a target listing when
\* every listing call answers 200: the migrate tasks of the async for, then
\* the delete tasks.
Reconcile(origin, target, m) ==
    LET r == Classify(ReadFrom(origin, 1), ReadFrom(target, 1), <<>>, {}, m)
    IN  r.tasks \o DeleteTasks(r.names, m)

\* The target namespace once the host has carried out the calls of `ts`:
\* a migrate adds the repository unless the name is taken, a delete removes
\* the repository of that name.
RECURSIVE HostApply(_, _)
HostApply(listing, ts) ==
    IF ts = <<>> THEN listing
    ELSE LET t == Head(ts)
         IN  HostApply(IF t.kind = "migrate"
                       THEN (IF InSeq(t.name, listing) THEN listing
                             ELSE Append(listing, t.name))
                       ELSE SelectSeq(listing, LAMBDA x : x # t.name),
                       Tail(ts))

\* Two runs of one organization mapping against hosts nobody else changes.
InitTwice ==
    /\ pc = "run"
    /\ nMirrors = 2
    /\ semaphore = ConcurrencyLimit
    /\ auth = 200
    /\ hostLoops = FALSE
    /\ idx = 0
    /\ mirror = [type |-> "org", origin |-> "o", url |-> NotAUrl]
    /\ targetHost \in Listings(TargetNames)
    /\ originHost \in Listings(OriginNames)
    /\ url = 0
    /\ repos = <<>>
    /\ target_repos = <<>>
    /\ target_repo_names = <<>>
    /\ targetState = "none"
    /\ tasks = <<>>
    /\ get_origin_org_repos_exception = FALSE
    /\ originState = "none"
    /\ yielded = <<>>
    /\ calls = NoCalls
    /\ log = {}

\* One whole run of update_org in which every call succeeds; the host
\* carries out the migrate and delete calls.  target_repos keeps the target
\* listing the first run started from.
ReconcileRun ==
    /\ pc = "run"
    /\ idx < nMirrors
    /\ LET ts == Reconcile(originHost, targetHost, idx + 1)
       IN  /\ tasks' = [i \in DOMAIN ts |-> TaskDone(ts, i, 0)[i]]
           /\ targetHost' = HostApply(targetHost, ts)
    /\ target_repos' = IF idx = 0 THEN targetHost ELSE target_repos
    /\ idx' = idx + 1
    /\ pc' = IF idx + 1 = nMirrors THEN "ran_twice" ELSE "run"
    /\ log' = {LogEntry("report", Report(FALSE))}
    /\ UNCHANGED <<configVars, mirror, originHost, url, repos,
                   target_repo_names, targetState,
                   get_origin_org_repos_exception, originState, yielded,
                   calls>>

NextTwice == ReconcileRun

SpecTwice == InitTwice /\ [][NextTwice]_vars

\* ------------------------------------------- every call eventually returns
\* The hosts may loop, every remote call returns a status (none raises),
\* and a step that can be taken is eventually taken.
InitLive ==
    /\ pc = "auth"
    /\ nMirrors \in 1..MaxMirrors
    /\ semaphore = ConcurrencyLimit
    /\ auth = 0
    /\ hostLoops \in BOOLEAN
    /\ idx = 0
    /\ mirror = NoMirror
    /\ targetHost = <<>>
    /\ originHost = <<>>
    /\ url = 0
    /\ repos = <<>>
    /\ target_repos = <<>>
    /\ target_repo_names = <<>>
    /\ targetState = "none"
    /\ tasks = <<>>
    /\ get_origin_org_repos_exception = FALSE
    /\ originState = "none"
    /\ yielded = <<>>
    /\ calls = NoCalls
    /\ log = {}

NextLive ==
    \/ AuthCheck
    \/ MainDone
    \/ MirrorNoOrigin
    \/ MirrorBadType
    \/ StartRepo
    \/ StartOrg
    \/ LookupReturn
    \/ OrgCreateReturn
    \/ TargetPageReturn
    \/ OriginPageReturn
    \/ TaskStart
    \/ TaskReturn
    \/ TaskGroupExit
    \/ RepoMigrateReturn

SpecLive == InitLive /\ [][NextLive]_vars /\ WF_vars(NextLive)

\* ---------------------------------------------------------------- claims
NameSet(s) == {s[i] : i \in DOMAIN s}

NoDup(s) == \A i, j \in DOMAIN s : s[i] = s[j] => i = j

\* A task whose remote call has been issued.
Issued(t) == t.st \in {"inflight", "done", "raised", "cancelled"}

IssuedNames(kind) ==
    {tasks[i].name : i \in {j \in DOMAIN tasks :
                               tasks[j].kind = kind /\ Issued(tasks[j])}}

ExistedNames == {e.name : e \in {x \in log : x.tag = "Existed"}}

Reported(what) == LogEntry("report", what) \in log

\* The origin enumeration of an organization mapping has completed and
\* every task it created has taken its first step.
FanOutIssued ==
    /\ mirror.type = "org"
    /\ originState = "complete"
    /\ Created(tasks) = {}

\* C1: for an organization mapping whose origin enumeration completes, with
\* O the names the origin listing yielded and T the names of the target
\* listing (each name listed once), migrate-create is called for exactly
\* O \ T, delete for exactly T \ O, the names of O \cap T are only logged
\* Existed, and the three sets are pairwise disjoint and cover O \cup T.
C1_Partition ==
    (FanOutIssued /\ NoDup(yielded) /\ NoDup(target_repos)) =>
        LET O == NameSet(yielded)
            T == NameSet(target_repos)
            creates == IssuedNames("migrate")
            deletes == IssuedNames("delete")
        IN  /\ creates = O \ T
            /\ deletes = T \ O
            /\ ExistedNames = O \cap T
            /\ calls["migrate"] = Cardinality(O \ T)
            /\ calls["delete"] = Cardinality(T \ O)
            /\ creates \cap deletes = {}
            /\ creates \cap ExistedNames = {}
            /\ deletes \cap ExistedNames = {}
            /\ creates \cup deletes \cup ExistedNames = O \cup T

\* C1 witness: a finished mapping with a create, a delete and an unchanged
\* name.
C1_Witness ==
    /\ FanOutIssued /\ NoDup(yielded) /\ NoDup(target_repos)
    /\ pc = "loop"
    /\ IssuedNames("migrate") # {}
    /\ IssuedNames("delete") # {}
    /\ ExistedNames # {}

\* C2: at most ConcurrencyLimit (the configured limit, the permits of
\* Session.semaphore) migrate-create and delete calls are in flight.
C2_InFlightBound == Cardinality(InFlight(tasks)) <= semaphore

\* C3: a migrate-create call that returned a non-201 status cancels or
\* skips no other task of the batch: with no task having raised, no task is
\* cancelled or left unstarted, and once the mapping has reported, every
\* task of the batch is done with its own status logged.
FailedCreate(t) == t.kind = "migrate" /\ t.st = "done" /\ t.status # 201

NoneRaised == \A i \in DOMAIN tasks : tasks[i].st # "raised"

C3_Isolation ==
    (\E i \in DOMAIN tasks : FailedCreate(tasks[i])) =>
        /\ NoneRaised =>
              \A j \in DOMAIN tasks :
                  tasks[j].st \in {"created", "inflight", "done"}
        /\ (Reported("success") \/ Reported("incomplete")) =>
              \A j \in DOMAIN tasks :
                  /\ tasks[j].st = "done"
                  /\ Outcome(tasks[j].kind, tasks[j].status) \in
                        {"Created", "CreateFailed", "Deleted", "DeleteFailed"}
                  /\ tasks[j].status # 0

\* C3 witness: a reported mapping with a failed create beside a successful
\* create and a delete.
C3_Witness ==
    /\ Reported("success")
    /\ \E i, j, k \in DOMAIN tasks :
          /\ FailedCreate(tasks[i])
          /\ tasks[j].kind = "migrate" /\ tasks[j].status = 201
          /\ tasks[k].kind = "delete" /\ tasks[k].st = "done"

\* C4: once a mapping has reported, every migrate-create call that returned
\* 422 has been followed by a delete call for the same repository.
C4_DeleteAfter422 ==
    (Reported("success") \/ Reported("incomplete")) =>
        \A i \in DOMAIN tasks :
            (tasks[i].kind = "migrate" /\ tasks[i].status = 422) =>
                \E j \in DOMAIN tasks :
                    /\ j > i
                    /\ tasks[j].kind = "delete"
                    /\ tasks[j].name = tasks[i].name
                    /\ Issued(tasks[j])

\* C5: a create or delete call that raises cancels no sibling task and does
\* not keep the mapping from its report or the driver from later mappings.
C5_FailureContained ==
    (\E i \in DOMAIN tasks : tasks[i].st = "raised") =>
        /\ \A j \in DOMAIN tasks : tasks[j].st \notin {"cancelled", "unstarted"}
        /\ pc # "crashed"


\* C6 as stated: the namespace ensure is over before the first origin page
\* is fetched, and the origin listing is over before the first
\* migrate-create or delete call is started.
EnsureOver ==
    /\ targetState \in {"created", "listed"}
    /\ pc \notin {"lookup", "org_create", "target_page"}

OriginOver == originState \in {"complete", "failed"}

DeleteNames ==
    LET d == SelectSeq(tasks, LAMBDA t : t.kind = "delete")
    IN  [i \in DOMAIN d |-> d[i].name]

MigrateNames ==
    LET c == SelectSeq(tasks, LAMBDA t : t.kind = "migrate")
    IN  [i \in DOMAIN c |-> c[i].name]

C7_PartialEnumeration ==
    originState = "failed" =>
        /\ ~Reported("success")
        /\ DeleteNames = target_repo_names
        /\ NameSet(yielded) \ NameSet(target_repos) \subseteq NameSet(MigrateNames)
        /\ NameSet(MigrateNames) \subseteq NameSet(yielded)
        /\ (NoneRaised /\ Created(tasks) = {}) =>
              \A i \in DOMAIN tasks : Issued(tasks[i])
        /\ pc = "tg_wait" =>
              (TaskGroupDrained(tasks) /\ NoneRaised => ENABLED TaskGroupExit)
        /\ pc \notin {"tg_wait", "crashed"} =>
              /\ Reported("incomplete")
              /\ \A i \in DOMAIN tasks : tasks[i].st = "done"

\* C7 witness: the second origin page failed; the create found on the first
\* page and the delete of the name left in the target are done, and the
\* mapping has reported 'incomplete'.
C7_Witness ==
    /\ originState = "failed"
    /\ yielded # <<>>
    /\ Reported("incomplete")
    /\ \E i, j \in DOMAIN tasks :
          /\ tasks[i].kind = "migrate" /\ tasks[i].st = "done"
          /\ tasks[j].kind = "delete" /\ tasks[j].st = "done"

\* C8: no task of an earlier mapping is unfinished once a later mapping has
\* started, and a mapping reports success or incomplete only when every one
\* of its tasks is finished.
C8_SequentialDrain ==
    /\ \A i \in DOMAIN tasks : tasks[i].m < idx => Finished(tasks[i])
    /\ (Reported("success") \/ Reported("incomplete")) =>
          \A i \in DOMAIN tasks : Finished(tasks[i])

\* C8 witness: the first of two mappings has reported after tasks that
\* succeeded and tasks that failed.
C8_Witness ==
    /\ nMirrors = 2 /\ idx = 1 /\ pc = "loop"
    /\ Reported("success")
    /\ \E i, j \in DOMAIN tasks :
          /\ tasks[i].st = "done" /\ tasks[i].status \in {201, 204}
          /\ tasks[j].st = "done" /\ tasks[j].status \notin {201, 204}

\* C9: after a mapping-fatal failure (check_target failed, or the url of a
\* repository mapping is malformed) the driver is back in its loop, which
\* ends only with the list: with a mirror left, the next one is taken.
MappingFatal ==
    /\ mirror.origin # ""
    /\ mirror.type \in {"org", "repo"}
    /\ Reported("failed")

C9_FatalIsLocal ==
    MappingFatal =>
        /\ pc \in {"loop", "finished"}
        /\ pc = "finished" => idx = nMirrors
        /\ (pc = "loop" /\ idx < nMirrors) =>
              (ENABLED StartOrg /\ ENABLED StartRepo /\ ~ENABLED MainDone)

\* C9 witness: the first of two mappings failed in check_target and the
\* driver is about to take the second.
C9_Witness ==
    /\ MappingFatal
    /\ targetState = "failed"
    /\ idx = 1 /\ nMirrors = 2 /\ pc = "loop"

\* C10: a listing of K pages is read with K page fetches and gives the
\* concatenation of the pages' items, in order and once each, by the origin
\* reader and by the target reader.
RECURSIVE ConcatPages(_, _)
ConcatPages(listing, k) ==
    IF k = 0 THEN <<>>
    ELSE ConcatPages(listing, k - 1) \o PageItems(listing, k)

C10_Pagination ==
    /\ originState = "complete" =>
          /\ calls["origin_page"] = NumPages(originHost)
          /\ yielded = ConcatPages(originHost, NumPages(originHost))
    /\ targetState = "listed" =>
          /\ calls["target_page"] = NumPages(targetHost)
          /\ target_repos = ConcatPages(targetHost, NumPages(targetHost))

\* C10 witness: both listings had more than one page and were read to the
\* end.
C10_Witness ==
    /\ originState = "complete" /\ NumPages(originHost) > 1
    /\ targetState = "listed" /\ NumPages(targetHost) > 1
    /\ Len(yielded) > 1 /\ Len(target_repos) > 1

\* C11: an organization mapping run twice in a row against hosts nobody
\* else changes, the creates and deletes of the first run carried out by the
\* target, creates no task in its second run: nothing to migrate, nothing to
\* delete.  The listings are name sets (no name listed twice).
C11_Idempotent ==
    (pc = "ran_twice" /\ NoDup(originHost) /\ NoDup(target_repos))
        => tasks = <<>>

\* The first run changed the target, the second found nothing to do.
C11_Witness ==
    /\ pc = "ran_twice"
    /\ NoDup(originHost)
    /\ NoDup(target_repos)
    /\ NameSet(target_repos) \ NameSet(originHost) # {}
    /\ NameSet(originHost) \ NameSet(target_repos) # {}
    /\ NameSet(targetHost) = NameSet(originHost)
    /\ tasks = <<>>

\* C12: when the lookup of the target namespace answered 404, the
\* namespace-create call is issued, no page of the target listing is
\* fetched and the target listing is empty; in an organization mapping every
\* repository the origin listing yielded gets a migrate task, whose call is
\* issued, and no delete task exists and no delete call is issued.
C12_FreshNamespace ==
    targetState = "created" =>
        /\ calls["lookup"] = 1
        /\ calls["org_create"] = 1
        /\ calls["target_page"] = 0
        /\ target_repos = <<>>
        /\ DeleteNames = <<>>
        /\ calls["delete"] = 0
        /\ mirror.type = "org" =>
              /\ MigrateNames = yielded
              /\ Created(tasks) = {} => calls["migrate"] = Len(yielded)

\* C12 witness: an organization mapping into a namespace it created has
\* reported, with a migrate call for each of two origin repositories.
C12_Witness ==
    /\ targetState = "created"
    /\ mirror.type = "org"
    /\ Reported("success")
    /\ Len(yielded) = 2
    /\ calls["migrate"] = 2
    /\ calls["delete"] = 0

\* C13: when the namespace ensure of a mapping failed (the lookup answered
\* neither 200 nor 404, or the creation after a 404 did not answer 201, or a
\* page of the target listing did not answer 200), the mapping is over with
\* the failure logged and no other report, and it fetched no origin page,
\* created no task and issued no migrate-create and no delete call.
C13_EnsureFailureAborts ==
    targetState = "failed" =>
        /\ \/ calls["org_create"] = 0 /\ calls["target_page"] = 0
           \/ calls["org_create"] = 1 /\ calls["target_page"] = 0
           \/ calls["org_create"] = 0 /\ calls["target_page"] >= 1
        /\ Reported("failed")
        /\ ~Reported("success") /\ ~Reported("incomplete")
        /\ pc \in {"loop", "finished"}
        /\ calls["origin_page"] = 0
        /\ calls["migrate"] = 0
        /\ calls["delete"] = 0
        /\ tasks = <<>>
        /\ yielded = <<>>

\* C13 witness: the second page of the target listing of an organization
\* mapping failed.
C13_Witness ==
    /\ targetState = "failed"
    /\ mirror.type = "org"
    /\ calls["target_page"] = 2
    /\ pc = "loop"

\* C14: when the pre-flight authentication call answered a status other
\* than 200, the run is over and no step of it is left, no mapping was
\* taken from the list, and no lookup, creation, listing, migrate-create or
\* delete call was issued.
C14_AuthGate ==
    auth \notin {0, 200} =>
        /\ pc = "aborted"
        /\ ~ENABLED Next
        /\ idx = 0
        /\ mirror = NoMirror
        /\ calls = NoCalls
        /\ tasks = <<>>
        /\ log = {}

\* C14 witness: the pre-flight call answered 401 before a list of two
\* mirrors.
C14_Witness ==
    /\ auth = 401
    /\ nMirrors = 2
    /\ pc = "aborted"

\* C15: a single-repository mapping whose source URL lacks a scheme or a
\* host (such as "not-a-url") is over at once with the failure logged: no
\* remote call is issued for it, not even the namespace lookup.
C15_MalformedUrl ==
    (/\ mirror.type = "repo"
     /\ mirror.origin # ""
     /\ (mirror.url.scheme = "" \/ mirror.url.netloc = "")) =>
        /\ calls = NoCalls
        /\ Reported("failed")
        /\ log = {LogEntry("report", "failed")}
        /\ targetState = "none"
        /\ tasks = <<>>
        /\ pc \in {"loop", "finished"}

\* C15 witness: the second mirror of the list is a repository mirror whose
\* URL has a scheme and no host.
C15_Witness ==
    /\ mirror.type = "repo"
    /\ mirror.url = NoHostUrl
    /\ idx = 2
    /\ pc = "finished"
    /\ calls = NoCalls

\* C16: a single-repository mapping creates no task, fetches no origin
\* page and issues no delete call.  Before check_target has returned it has
\* issued no migrate-create call; afterwards it has issued exactly one when
\* the repository name is absent from the target listing, and none, logging
\* Existed, when the name is present.
C16_SingleRepo ==
    mirror.type = "repo" =>
        LET present == \E i \in DOMAIN target_repos :
                           target_repos[i] = mirror.origin
        IN  /\ calls["delete"] = 0
            /\ calls["origin_page"] = 0
            /\ tasks = <<>>
            /\ calls["migrate"] <= 1
            /\ ~EnsureOver => calls["migrate"] = 0
            /\ (EnsureOver /\ present) =>
                  /\ calls["migrate"] = 0
                  /\ LogEntry("Existed", mirror.origin) \in log
            /\ (EnsureOver /\ ~present) =>
                  /\ calls["migrate"] = 1
                  /\ LogEntry("Existed", mirror.origin) \notin log

\* C16 witness: the repository is the second of two the target lists, and
\* the mapping is over without a migrate-create call.
C16_Witness ==
    /\ mirror.type = "repo"
    /\ EnsureOver
    /\ Len(target_repos) = 2
    /\ target_repos[2] = mirror.origin
    /\ target_repos[1] # mirror.origin
    /\ calls["migrate"] = 0
    /\ pc = "loop"

\* C17: a mapping with an empty origin, or with a kind that is neither
\* 'org' nor 'repo', is rejected with no remote call issued and is only
\* skipped: while mirrors are left in the list, the driver is back in the
\* loop of main to take the next one.
InvalidMirror ==
    /\ idx > 0
    /\ (mirror.origin = "" \/ mirror.type \notin {"org", "repo"})

C17_InvalidOnlySkipped ==
    InvalidMirror =>
        /\ calls = NoCalls
        /\ tasks = <<>>
        /\ idx < nMirrors => pc = "loop"

\* C18: for listings taken as item sequences (a name may be listed more
\* than once) and whether or not the origin enumeration fails partway, a
\* delete task of an organization mapping is only for a name that the
\* target listing holds and that is not among the items the origin listing
\* yielded.
C18_DeleteSafety ==
    \A i \in DOMAIN tasks :
        tasks[i].kind = "delete" =>
            /\ tasks[i].name \in NameSet(target_repos)
            /\ tasks[i].name \notin NameSet(yielded)

\* C18 amended: when the target listing lists no name twice (the origin
\* listing may repeat names and may fail partway), a delete task is only
\* for a name that the target listing holds and that is not among the items
\* the origin listing yielded.
C18_DeleteSafetyUniqueTarget ==
    NoDup(target_repos) => C18_DeleteSafety

\* C18 witness: the origin listing yielded a name twice, one the target
\* lists beside another; the mapping has reported with a delete issued.
C18_Witness ==
    /\ NoDup(target_repos)
    /\ Len(target_repos) = 2
    /\ ~NoDup(yielded)
    /\ ExistedNames # {}
    /\ Reported("success")
    /\ calls["delete"] > 0
    /\ \E i \in DOMAIN tasks : tasks[i].kind = "delete"

\* C19: for every sequence of origin items (a name may be yielded more than
\* once), no migrate task is for a name the target listing holds, and no
\* two migrate tasks are for the same name.
C19_CreateSafety ==
    \A i \in DOMAIN tasks :
        tasks[i].kind = "migrate" =>
            /\ tasks[i].name \notin NameSet(target_repos)
            /\ \A j \in DOMAIN tasks :
                  (tasks[j].kind = "migrate" /\ tasks[j].name = tasks[i].name)
                      => j = i

\* C19 amended: while the origin listing has yielded no name twice (the
\* target listing may repeat names), no migrate task is for a name the
\* target listing holds, and no two migrate tasks are for the same name.
C19_CreateSafetyUniqueOrigin ==
    NoDup(yielded) => C19_CreateSafety

\* C19 witness: against a target listing that repeats a name, the origin
\* listing yielded that name and another; the mapping has reported with one
\* migrate-create call.
C19_Witness ==
    /\ NoDup(yielded)
    /\ ~NoDup(target_repos)
    /\ Len(yielded) = 2
    /\ ExistedNames # {}
    /\ calls["migrate"] = 1
    /\ Reported("success")

\* C20: provided every remote call eventually returns, the run comes to
\* an end (main has left its loop) for every combination of statuses and
\* every chain of 'next' links the hosts supply.
Terminated == pc \in {"finished", "returned", "aborted"}

C20_Terminates == <>Terminated

\* C20 amended: provided every remote call eventually returns and the
\* hosts serve no 'next' link that leads back to a page already fetched, the
\* run comes to an end for every combination of statuses.
C20_TerminatesOnFiniteChains == (~hostLoops) => <>Terminated

\* C20 witness: a run over two organization mirrors has finished, the last
\* after following the 'next' links of a two-page target listing and of a
\* two-page origin listing.
C20_Witness ==
    /\ ~hostLoops
    /\ pc = "finished"
    /\ idx = 2
    /\ mirror.type = "org"
    /\ calls["target_page"] = 2
    /\ calls["origin_page"] = 2
    /\ Reported("success")

====
